---- MODULE Spec2Model ----
(***************************************************************************)
(* The imaginary-time propagation loop of the AFQMC drivers                *)
(*   do_qmc      (src/afqmcpy/qmc.py)       - the older driver, which also *)
(*                                            owns the history buffer      *)
(*   AFQMC.run   (src/pauxy/qmc/afqmc.py)   - the current driver           *)
(* as one state machine.  A configuration (cfg) selects the driver and the *)
(* options; every statement of the loop body is one action and pc/iw hold  *)
(* the position in the body.                                               *)
(*                                                                         *)
(* Numbers.  Weights are integers counted in units of the propagation      *)
(* threshold 1e-8 (Eps); the weight 1.0 is UnitWeight of these units.      *)
(* Energies are small naturals and exp(dt*Re(E)) is 2^E, so the constant   *)
(* factor is a positive integer.  A determinant is a direction (phi) and a *)
(* norm; the local energy is a function of the direction.                  *)
(*                                                                         *)
(* Names do_qmc uses without binding them (the buffer psi_hist it fills at *)
(* line 25, the module "estimates") are taken as bound by the rest of the  *)
(* repository.  Locals it binds on some paths only (psi_hist = None when   *)
(* back propagation is off, psi_left before the first back propagation)    *)
(* raise when read on the other paths: pc = "error", the run is aborted.   *)
(* state.itcf (line 73) and state.estimators.calc_itcf (line 80) are one   *)
(* option, cfg.itcf.                                                       *)
(***************************************************************************)
EXTENDS Integers, Sequences, FiniteSets, TLC

\* ---- bounds of the model: the steps of a run, the block size and the
\* depth of the back propagation, the walkers, the offsets r = j / CombRes
\* the comb may draw, the directions a determinant may take
MaxSteps == 4
MaxBlock == 3
MaxDepth == 3
NWalkers == 2
CombRes == 2
PhiMod == 4

\* ---- numbers of the program: the threshold 1e-8 and the weight 1.0, in
\* units of the threshold
Eps == 1
UnitWeight == 4

NoHist == <<>>
Unbound == [bound |-> FALSE, at |-> 0, s |-> 0, e |-> 0]
\* no read of slot 0 in this step; a slot nothing was written to
NoRead == 0 - 2
Unwritten == 0 - 1

Abs(x) == IF x < 0 THEN 0 - x ELSE x
Max(a, b) == IF a > b THEN a ELSE b
Min(a, b) == IF a < b THEN a ELSE b

RECURSIVE Pow2(_)
Pow2(n) == IF n = 0 THEN 1 ELSE 2 * Pow2(n - 1)

\* exp(dt * E.real), the constant factor of a step
ExpFactor(E) == Pow2(E)

\* local_energy(system, G)[0].real of a walker
LocalEnergy(w) == w.phi % 2

VARIABLES cfg, psi, psi_hist, histStep, psi_left, E_T, mle, est,
          step, pc, iw, turn, ev, nreset, refPop, executed,
          uhf, rd, cli

\* the driver's state; the state of the set-up of a UHF trial wavefunction
\* (uhf), of the read-in of a trial wavefunction (rd) and of the
\* post-processing tool (cli)
qmcVars == <<cfg, psi, psi_hist, histStep, psi_left, E_T, mle, est,
             step, pc, iw, turn, ev, nreset, refPop, executed>>
setup == <<uhf, rd, cli>>
vars == <<cfg, psi, psi_hist, histStep, psi_left, E_T, mle, est,
          step, pc, iw, turn, ev, nreset, refPop, executed, uhf, rd, cli>>

\* a program that is not running
Idle == [pc |-> "idle"]

N == cfg.nwalkers
B == cfg.nprop_tot
D == cfg.nback_prop
Walkers == 1..Len(psi)

\* ---- the estimator handler's mixed estimator: the range of the local
\* energies accumulated since the last print, and how many were accumulated
EstEmpty == [lo |-> 1, hi |-> 0, n |-> 0]
EstAdd(e, w) ==
  IF e.n = 0 THEN [lo |-> LocalEnergy(w), hi |-> LocalEnergy(w), n |-> 1]
  ELSE [lo |-> Min(e.lo, LocalEnergy(w)), hi |-> Max(e.hi, LocalEnergy(w)),
        n |-> e.n + 1]
RECURSIVE EstAddAll(_, _, _)
EstAddAll(e, p, i) ==
  IF i > Len(p) THEN e ELSE EstAddAll(EstAdd(e, p[i]), p, i + 1)
\* eproj / projected_energy: a weighted mean of what was accumulated
Eproj(e) == IF e.n = 0 THEN {0} ELSE e.lo..e.hi

\* ---- ghost records
TurnInit == [w0 |-> 0, a0 |-> TRUE, seen |-> FALSE, prop |-> FALSE,
             wmid |-> 0, nrew |-> 0, fac |-> 0, w1 |-> 0, nupd |-> 0,
             nstab |-> 0, detR |-> 0, sw0 |-> 0, sn0 |-> 0, sw1 |-> 0,
             sn1 |-> 0, updBefore |-> 0, accw |-> 0, accrew |-> 0,
             inert |-> FALSE]
EvInit == [bpfired |-> FALSE, s |-> 0, e |-> 0, slots |-> <<>>,
           stamps |-> <<>>, itcffired |-> FALSE, read0 |-> NoRead,
           read0ok |-> TRUE, resets |-> 0, bpreset |-> FALSE,
           itcfreset |-> FALSE, popc |-> FALSE, et0 |-> 0, accum |-> FALSE,
           late |-> FALSE, par |-> <<>>, pre |-> <<>>, j |-> 0,
           prehist |-> <<>>]


\* ---- configurations
MkCfg(driver, nsteps, nstblz, nmeasure, nshift, nequil, npop, nprop, nbp, bpOn, itcfOn, imp, prop) ==
  [driver |-> driver, nwalkers |-> NWalkers, nsteps |-> nsteps,
   nstblz |-> nstblz, nmeasure |-> nmeasure, nupdate_shift |-> nshift,
   nequilibrate |-> nequil, npop_control |-> npop, nprop_tot |-> nprop,
   nback_prop |-> nbp, back_propagation |-> bpOn, itcf |-> itcfOn,
   importance_sampling |-> imp, propagator |-> prop]

\* the last value of the loop variable: range(1, nsteps) in do_qmc,
\* range(1, nsteps + 1) in AFQMC.run
LastStep ==
  IF cfg.driver = "do_qmc" THEN cfg.nsteps - 1 ELSE cfg.nsteps

\* ---- the propagator (an external collaborator): what one call may do to
\* a walker.  wop acts on the weight, g multiplies the determinant's norm,
\* x is the sampled auxiliary field, kill clears the alive flag.
\*   noop         leaves the walker alone
\*   fields       advances the determinant and keeps the weight
\*   constrained  keeps the weight (the determinant changes norm and sign) or
\*                zeroes it; in AFQMC.run it may also kill the walker
\*   free         keeps the weight or flips its sign
Outcome(wop, g, x, kill) == [wop |-> wop, g |-> g, x |-> x, kill |-> kill]
Outcomes(kind) ==
  CASE kind = "noop" -> {Outcome("keep", 1, -1, FALSE)}
    [] kind = "fields" -> {Outcome("keep", 1, 1, FALSE)}
    [] kind = "constrained" ->
         {Outcome("keep", -2, 1, FALSE), Outcome("zero", 1, 0, FALSE)}
         \cup (IF cfg.driver = "run"
               THEN {Outcome("keep", 1, 0, TRUE)} ELSE {})
    [] kind = "free" ->
         {Outcome("keep", -2, 1, FALSE), Outcome("neg", 1, 1, FALSE)}

ApplyWeight(wop, w) ==
  CASE wop = "keep" -> w
    [] wop = "zero" -> 0
    [] wop = "neg" -> 0 - w

ApplyOutcome(w, o) ==
  [weight |-> ApplyWeight(o.wop, w.weight),
   alive |-> IF o.kill THEN FALSE ELSE w.alive,
   phi |-> IF o.x < 0 THEN w.phi ELSE (w.phi + o.x) % PhiMod,
   norm |-> w.norm * o.g]

\* ---- the guard of the propagation
PropGuardGe(w) ==
  IF cfg.driver = "do_qmc" THEN Abs(w.weight) >= Eps
  ELSE Abs(w.weight) >= Eps /\ w.alive
PropGuard(w) ==
  IF cfg.driver = "do_qmc" THEN Abs(w.weight) > Eps
  ELSE Abs(w.weight) > Eps /\ w.alive

\* ---- the constant factor of the current step
ConstFactorMle == ExpFactor(mle)
ConstFactor == ExpFactor(E_T)

\* ---- Walker.reortho: orthonormal columns, returns detR
DetR(w) == w.norm
Reorthogonalised(w) == [w EXCEPT !.norm = 1]

\* ---- population control: comb(psi, nw, psi_hist)
RECURSIVE Cum(_, _)
Cum(p, i) == IF i = 0 THEN 0 ELSE Cum(p, i - 1) + Abs(p[i].weight)
Total(p) == Cum(p, Len(p))
\* tooth k (0-based) of nw teeth with offset r = j / CombRes sits at
\* (k + r) * Total / nw; walker i owns [Cum(i-1), Cum(i))
ToothIn(p, nw, j, k, i) ==
  /\ Cum(p, i - 1) * nw * CombRes <= (k * CombRes + j) * Total(p)
  /\ (k * CombRes + j) * Total(p) < Cum(p, i) * nw * CombRes
ParentNoOffset(p, nw, j, k) ==
  IF Total(p) = 0 THEN (k % Len(p)) + 1
  ELSE CHOOSE i \in 1..Len(p) : ToothIn(p, nw, 0, k, i)
Parent(p, nw, j, k) ==
  IF Total(p) = 0 THEN (k % Len(p)) + 1
  ELSE CHOOSE i \in 1..Len(p) : ToothIn(p, nw, j, k, i)
Parents(p, nw, j) == [k \in 1..nw |-> Parent(p, nw, j, k - 1)]
Comb(p, nw, j) ==
  [k \in 1..nw |-> [p[Parents(p, nw, j)[k]] EXCEPT !.weight = UnitWeight]]
Remap(snap, par) ==
  IF snap = <<>> THEN <<>> ELSE [k \in 1..Len(par) |-> snap[par[k]]]
CombHist(h, par) ==
  IF h = NoHist THEN NoHist ELSE [k \in DOMAIN h |-> Remap(h[k], par)]

\* the target size the driver hands to the population controller
PopTargetShort == cfg.nwalkers - 1
PopTarget == cfg.nwalkers

\* ---- Python indexing of an axis of length n
PyIdx(i, n) == IF i < 0 THEN i + n ELSE i
PyClamp(i, n) == IF i < 0 THEN Max(i + n, 0) ELSE Min(i, n)
PySlice(lo, hi, n) ==
  [k \in 1..Max(PyClamp(hi, n) - PyClamp(lo, n), 0) |-> PyClamp(lo, n) + k - 1]

HistLen == B + 1
BpStepFromZero == step % B
BpStep == (step - 1) % B
BpStart == BpStep - D + 1
BpEnd == BpStep + 1


\* ---- if step % nstblz == 0: whether the step stabilises the walkers
StabDueAlways == TRUE
StabDue == step % cfg.nstblz = 0

\* ---- the order of the loop body after the loop over the walkers
PostPhasesNoUpdate ==
  IF cfg.driver = "do_qmc"
  THEN <<"hist", "bp", "itcf", "meas", "equil", "pop">>
  ELSE <<"orth", "shift", "print", "equil", "pop">>
PostPhases ==
  IF cfg.driver = "do_qmc"
  THEN <<"hist", "bp", "itcf", "meas", "equil", "pop">>
  ELSE <<"updall", "orth", "shift", "print", "equil", "pop">>

\* ---- if step % nmeasure == 0 (the report; in do_qmc also the new E_T) and
\* if step % nupdate_shift == 0 (AFQMC.run: the new E_T)
MeasDueAlways == TRUE
MeasDue == step % cfg.nmeasure = 0
ShiftDue == step % cfg.nupdate_shift = 0
\* ---- if step < nequilibrate: whether the step is one of the equilibration
EquilDueLe == step <= cfg.nequilibrate
EquilDue == step < cfg.nequilibrate
\* ---- if step % npop_control == 0: whether the step ends with the
\* population control
PopDueAlways == TRUE
PopDue == step % cfg.npop_control = 0

Applies(ph) ==
  CASE ph = "hist" -> cfg.back_propagation
    [] ph = "bp" -> cfg.back_propagation /\ step % cfg.nback_prop = 0
    [] ph = "itcf" -> cfg.itcf /\ step % cfg.nprop_tot = 0
    [] ph = "meas" -> MeasDue
    [] ph = "updall" -> TRUE
    [] ph = "orth" -> StabDue
    [] ph = "shift" -> ShiftDue
    [] ph = "print" -> MeasDue
    [] ph = "equil" -> EquilDue
    [] ph = "pop" -> PopDue

\* the first phase after position k of PostPhases that this step runs
PostAfter(k) ==
  LET later == {m \in (k + 1)..Len(PostPhases) : Applies(PostPhases[m])}
  IN IF later = {} THEN "end"
     ELSE PostPhases[CHOOSE m \in later : \A q \in later : m <= q]
PhaseIx(ph) == CHOOSE m \in 1..Len(PostPhases) : PostPhases[m] = ph
AfterPhase(ph) == PostAfter(PhaseIx(ph))

\* the population the current block started from (ghost): pop, as it was
\* when the loop over the walkers of step `step` ended; next is the
\* population of the step that ends the current block, which takes over when
\* that step is over
BlockEnds == (cfg.back_propagation \/ cfg.itcf) /\ step % B = 0
RefAfterLoop(p) ==
  IF BlockEnds THEN [refPop EXCEPT !.next = p] ELSE refPop

\* leaving walker iw's turn with the population p
NextWalker(p) ==
  IF iw < Len(p)
  THEN /\ pc' = "prop" /\ iw' = iw + 1 /\ refPop' = refPop
  ELSE /\ pc' = PostAfter(0) /\ iw' = 0 /\ refPop' = RefAfterLoop(p)

\* ---- copy.deepcopy(psi): whether slot k of the history shares its walkers
\* with the live population, and the history after the live walkers were
\* changed in place to p
AliasedIfWritten(k) == histStep[k] # Unwritten
Aliased(k) == FALSE
Sync(h, p) ==
  IF h = NoHist THEN h
  ELSE [k \in DOMAIN h |-> IF Aliased(k) THEN p ELSE h[k]]

\* ---- the loop over the walkers
Propagate ==
  /\ pc = "prop"
  /\ LET w == psi[iw]
         go == PropGuard(w)
     IN \E o \in (IF go THEN Outcomes(cfg.propagator)
                  ELSE {Outcome("keep", 1, -1, FALSE)}) :
          /\ psi' = [psi EXCEPT ![iw] = ApplyOutcome(w, o)]
          /\ turn' = [turn EXCEPT ![iw] =
                        [@ EXCEPT !.w0 = w.weight, !.a0 = w.alive,
                                  !.seen = TRUE, !.prop = go,
                                  !.wmid = ApplyWeight(o.wop, w.weight)]]
          /\ ev' = [ev EXCEPT !.late = @ \/ (ev.accum /\ go)]
  /\ pc' = "rew"
  /\ psi_hist' = Sync(psi_hist, psi')
  /\ UNCHANGED <<setup, cfg, histStep, psi_left, E_T, mle, est, step, iw,
                 nreset, refPop, executed>>

Reweight ==
  /\ pc = "rew"
  /\ psi' = [psi EXCEPT ![iw].weight = @ * ConstFactor]
  /\ turn' = [turn EXCEPT ![iw] =
                [@ EXCEPT !.nrew = @ + 1, !.fac = ConstFactor,
                          !.w1 = psi[iw].weight * ConstFactor]]
  /\ ev' = [ev EXCEPT !.late = @ \/ ev.accum]
  /\ IF cfg.driver = "do_qmc"
     THEN pc' = "upd" /\ iw' = iw /\ refPop' = refPop
     ELSE NextWalker(psi')
  /\ psi_hist' = Sync(psi_hist, psi')
  /\ UNCHANGED <<setup, cfg, histStep, psi_left, E_T, mle, est, step,
                 nreset, executed>>

\* what an accumulation of walker w leaves in its record of the step (ghost)
AccRecord(t, w) ==
  [t EXCEPT !.nupd = @ + 1, !.accw = w.weight, !.accrew = t.nrew]

\* do_qmc: state.estimators.update(w, state) inside the loop
Update ==
  /\ pc = "upd"
  /\ est' = EstAdd(est, psi[iw])
  /\ turn' = [turn EXCEPT ![iw] = AccRecord(@, psi[iw])]
  /\ ev' = [ev EXCEPT !.accum = TRUE]
  /\ IF StabDue
     THEN pc' = "stab" /\ iw' = iw /\ refPop' = refPop
     ELSE NextWalker(psi)
  /\ UNCHANGED <<setup, cfg, psi, psi_hist, histStep, psi_left, E_T, mle, step,
                 nreset, executed>>

\* the weight after a stabilisation that returned detR
StabWeightAlways(w, detR) == detR * w.weight
StabWeightNever(w, detR) == w.weight
StabWeight(w, detR) ==
  IF ~cfg.importance_sampling THEN detR * w.weight ELSE w.weight

Stabilised(w) == [Reorthogonalised(w) EXCEPT !.weight = StabWeight(w, DetR(w))]

\* what a stabilisation of walker w leaves in its record of the step (ghost)
StabRecord(t, w) ==
  [t EXCEPT !.nstab = @ + 1, !.detR = DetR(w),
            !.sw0 = w.weight, !.sn0 = w.norm,
            !.sw1 = Stabilised(w).weight, !.sn1 = Stabilised(w).norm,
            !.updBefore = t.nupd]

\* do_qmc: detR = w.reortho(nup) inside the loop
Reortho ==
  /\ pc = "stab"
  /\ psi' = [psi EXCEPT ![iw] = Stabilised(psi[iw])]
  /\ turn' = [turn EXCEPT ![iw] = StabRecord(@, psi[iw])]
  /\ NextWalker(psi')
  /\ psi_hist' = Sync(psi_hist, psi')
  /\ UNCHANGED <<setup, cfg, histStep, psi_left, E_T, mle, est, step, ev,
                 nreset, executed>>

\* AFQMC.run: self.estimators.update(...) after the loop
EstimatorsUpdate ==
  /\ pc = "updall"
  /\ est' = EstAddAll(est, psi, 1)
  /\ turn' = [i \in DOMAIN turn |-> AccRecord(turn[i], psi[i])]
  /\ ev' = [ev EXCEPT !.accum = TRUE]
  /\ pc' = AfterPhase("updall")
  /\ UNCHANGED <<setup, cfg, psi, psi_hist, histStep, psi_left, E_T, mle, step, iw,
                 nreset, refPop, executed>>

\* AFQMC.run: self.psi.orthogonalise(trial, free_projection)
Orthogonalise ==
  /\ pc = "orth"
  /\ psi' = [i \in DOMAIN psi |-> Stabilised(psi[i])]
  /\ turn' = [i \in DOMAIN turn |-> StabRecord(turn[i], psi[i])]
  /\ pc' = AfterPhase("orth")
  /\ psi_hist' = Sync(psi_hist, psi')
  /\ UNCHANGED <<setup, cfg, histStep, psi_left, E_T, mle, est, step, iw,
                 ev, nreset, refPop, executed>>


\* ---- the history buffer (do_qmc)
ResetSlot0(h) == [h EXCEPT ![0] = psi]

\* psi_hist[:,bp_step+1] = copy.deepcopy(psi)
HistWrite ==
  /\ pc = "hist"
  /\ psi_hist' = [psi_hist EXCEPT ![BpStep + 1] = psi]
  /\ histStep' = [histStep EXCEPT ![BpStep + 1] = step]
  /\ pc' = AfterPhase("hist")
  /\ UNCHANGED <<setup, cfg, psi, psi_left, E_T, mle, est, step, iw, turn, ev,
                 nreset, refPop, executed>>

\* whether the back propagation resets slot 0 itself
BpResetsAlways == TRUE
BpResets == ~cfg.itcf

\* if step % nback_prop == 0: back_propagate the slice, update, reset slot 0
BackProp ==
  /\ pc = "bp"
  /\ IF BpStart + HistLen < 0
     THEN /\ pc' = "error"
          /\ UNCHANGED <<psi_hist, histStep, psi_left, ev, nreset>>
     ELSE LET slots == PySlice(BpStart + 1, BpEnd + 1, HistLen)
              s0 == PyIdx(BpStart, HistLen)
          IN /\ psi_left' = [bound |-> TRUE, at |-> step, s |-> BpStart,
                             e |-> BpEnd]
             /\ ev' = [ev EXCEPT
                         !.bpfired = TRUE, !.s = BpStart, !.e = BpEnd,
                         !.slots = slots,
                         !.stamps = [k \in DOMAIN slots |-> histStep[slots[k]]],
                         !.read0 = IF s0 = 0 THEN histStep[0] ELSE @,
                         !.read0ok = IF s0 = 0
                                     THEN psi_hist[0] = refPop.pop ELSE @,
                         !.resets = IF BpResets THEN @ + 1 ELSE @,
                         !.bpreset = BpResets]
             /\ IF BpResets
                THEN /\ psi_hist' = ResetSlot0(psi_hist)
                     /\ histStep' = [histStep EXCEPT ![0] = step]
                     /\ nreset' = nreset + 1
                ELSE UNCHANGED <<psi_hist, histStep, nreset>>
             /\ pc' = AfterPhase("bp")
  /\ UNCHANGED <<setup, cfg, psi, E_T, mle, est, step, iw, turn, refPop, executed>>

\* if calc_itcf and step % nprop_tot == 0: calculate_itcf, reset slot 0
ITCF ==
  /\ pc = "itcf"
  /\ IF ~psi_left.bound \/ ~cfg.back_propagation
     THEN /\ pc' = "error"
          /\ UNCHANGED <<psi_hist, histStep, ev, nreset>>
     ELSE /\ ev' = [ev EXCEPT !.itcffired = TRUE, !.read0 = histStep[0],
                              !.read0ok = (psi_hist[0] = refPop.pop),
                              !.resets = @ + 1, !.itcfreset = TRUE]
          /\ psi_hist' = ResetSlot0(psi_hist)
          /\ histStep' = [histStep EXCEPT ![0] = step]
          /\ nreset' = nreset + 1
          /\ pc' = AfterPhase("itcf")
  /\ UNCHANGED <<setup, cfg, psi, psi_left, E_T, mle, est, step, iw, turn, refPop,
                 executed>>

\* ---- measurement, energy shift, equilibration
\* do_qmc: if step % nmeasure == 0: E_T = eproj(...); print_step(...)
Measure ==
  /\ pc = "meas"
  /\ E_T' \in Eproj(est)
  /\ est' = EstEmpty
  /\ pc' = AfterPhase("meas")
  /\ UNCHANGED <<setup, cfg, psi, psi_hist, histStep, psi_left, mle, step, iw, turn,
                 ev, nreset, refPop, executed>>

\* AFQMC.run: if step % nupdate_shift == 0: E_T = projected_energy()
UpdateShift ==
  /\ pc = "shift"
  /\ E_T' \in Eproj(est)
  /\ pc' = AfterPhase("shift")
  /\ UNCHANGED <<setup, cfg, psi, psi_hist, histStep, psi_left, mle, est, step, iw,
                 turn, ev, nreset, refPop, executed>>

\* AFQMC.run: if step % nmeasure == 0: self.estimators.print_step(...)
PrintStep ==
  /\ pc = "print"
  /\ est' = EstEmpty
  /\ pc' = AfterPhase("print")
  /\ UNCHANGED <<setup, cfg, psi, psi_hist, histStep, psi_left, E_T, mle, step, iw,
                 turn, ev, nreset, refPop, executed>>

\* if step < nequilibrate: mean_local_energy = E_T
Equilibrate ==
  /\ pc = "equil"
  /\ mle' = E_T
  /\ pc' = AfterPhase("equil")
  /\ UNCHANGED <<setup, cfg, psi, psi_hist, histStep, psi_left, E_T, est, step, iw,
                 turn, ev, nreset, refPop, executed>>

\* ---- if step % npop_control == 0: population control
\* the history the driver hands to the population controller
HistArgNone == NoHist
HistArg == psi_hist

PopControl ==
  /\ pc = "pop"
  /\ \E j \in 0..(CombRes - 1) :
       LET par == Parents(psi, PopTarget, j)
       IN /\ psi' = Comb(psi, PopTarget, j)
          /\ psi_hist' = CombHist(HistArg, par)
          /\ refPop' = [refPop EXCEPT !.pop = Remap(@, par),
                                      !.next = Remap(@, par)]
          /\ ev' = [ev EXCEPT !.popc = TRUE, !.par = par, !.pre = psi,
                              !.j = j, !.prehist = psi_hist]
  /\ pc' = "end"
  /\ UNCHANGED <<setup, cfg, histStep, psi_left, E_T, mle, est, step, iw, turn,
                 nreset, executed>>

\* whether a walker goes into the next step as one that was found at or
\* below the threshold and was not handed to a population control since
\* (ghost)
InertAfter(t) ==
  ~ev.popc /\ (t.inert \/ (t.seen /\ Abs(t.w0) <= Eps))

\* ---- the end of the loop body: the next step, or the end of the run
EndStep ==
  /\ pc = "end"
  /\ IF step < LastStep
     THEN /\ step' = step + 1
          /\ pc' = "prop"
          /\ iw' = 1
          /\ turn' = [i \in 1..Len(psi) |->
                        [TurnInit EXCEPT !.inert = InertAfter(turn[i])]]
          /\ ev' = [EvInit EXCEPT !.et0 = E_T]
          /\ nreset' = IF step % B = 0 THEN 0 ELSE nreset
          /\ executed' = Append(executed, step + 1)
          /\ refPop' = IF BlockEnds
                       THEN [pop |-> refPop.next, step |-> step, next |-> <<>>]
                       ELSE refPop
     ELSE /\ pc' = "done"
          /\ UNCHANGED <<step, iw, turn, ev, nreset, executed, refPop>>
  /\ UNCHANGED <<setup, cfg, psi, psi_hist, histStep, psi_left, E_T, mle, est>>

\* ---- initial states
Walker0(wt, ph) == [weight |-> wt, alive |-> TRUE, phi |-> ph, norm |-> 1]

QmcInit(c, p) ==
  /\ cfg = [c EXCEPT !.nwalkers = Len(p)]
  /\ psi = p
  /\ psi_hist = IF c.back_propagation
                THEN [k \in 0..c.nprop_tot |-> IF k = 0 THEN p ELSE <<>>]
                ELSE NoHist
  /\ histStep = [k \in 0..c.nprop_tot |-> IF k = 0 THEN 0 ELSE Unwritten]
  /\ psi_left = Unbound
  /\ E_T = LocalEnergy(p[1])
  /\ mle = LocalEnergy(p[1])
  /\ est = EstEmpty
  /\ turn = [i \in 1..Len(p) |-> TurnInit]
  /\ ev = [EvInit EXCEPT !.et0 = LocalEnergy(p[1])]
  /\ nreset = 0
  /\ refPop = [pop |-> p, step |-> 0, next |-> <<>>]
  /\ iw = IF (IF c.driver = "do_qmc" THEN c.nsteps - 1 ELSE c.nsteps) >= 1
          THEN 1 ELSE 0
  /\ step = iw
  /\ pc = IF iw = 1 THEN "prop" ELSE "done"
  /\ executed = IF iw = 1 THEN <<1>> ELSE <<>>

InitWith(c, p) ==
  /\ QmcInit(c, p)
  /\ uhf = Idle /\ rd = Idle /\ cli = Idle

Drivers == {"do_qmc", "run"}

\* the populations a run starts from: copies of one trial determinant
Populations(weights) ==
  {[i \in 1..NWalkers |-> Walker0(IF i = 1 THEN wt ELSE UnitWeight, ph)] :
     wt \in weights, ph \in {0, 1}}

SpecCfgs ==
  {MkCfg(d, MaxSteps, 2, 2, 1, 2, 3, 1, 1, FALSE, FALSE, imp,
         IF imp THEN "constrained" ELSE "free") :
     d \in Drivers, imp \in BOOLEAN}
  \cup {MkCfg("do_qmc", MaxSteps, 2, 2, 1, 2, 3, 2, 2, TRUE, it, TRUE, "noop") :
          it \in BOOLEAN}

Init ==
  \E c \in SpecCfgs : \E p \in Populations({Eps, UnitWeight}) : InitWith(c, p)

\* the history buffer under every pair of a block size and a depth that fits
\* into the block, for each choice of the estimators that use it; a run is
\* long enough to read slot 0 in its second block
HistCfgs ==
  {MkCfg("do_qmc", b + d + 1, 2, 2 * MaxBlock + 1, 1, 2, 3, b, d,
         bpOn, it, TRUE, "fields") :
     b \in 1..MaxBlock, d \in 1..MaxDepth, bpOn \in BOOLEAN, it \in BOOLEAN}
  \cup {MkCfg(dr, 3, 2, 2, 1, 2, 2, 1, 1, dr = "do_qmc", FALSE, TRUE, "noop") :
          dr \in Drivers}

InitHist ==
  \E c \in HistCfgs : \E p \in Populations({Eps, UnitWeight}) :
     /\ c.nback_prop <= c.nprop_tot
     /\ c.back_propagation \/ c.itcf \/ c.driver = "run"
     /\ InitWith(c, p)

\* the end-to-end scenario: 2 walkers of weight 1.0, a propagator that does
\* nothing, nsteps = 10, nstblz = 5, npop_control = 5
E2ECfgs ==
  {MkCfg(d, 10, 5, 5, 5, ne, 5, 5, 5, bpOn, bpOn, imp, "noop") :
     d \in Drivers, ne \in {0, 3, 6}, bpOn \in BOOLEAN, imp \in BOOLEAN}

InitE2E ==
  \E c \in E2ECfgs : \E ph \in {0, 1} :
     /\ c.driver = "run" => ~c.back_propagation
     /\ InitWith(c, <<Walker0(UnitWeight, ph), Walker0(UnitWeight, ph)>>)

Next ==
  \/ Propagate
  \/ Reweight
  \/ Update
  \/ Reortho
  \/ EstimatorsUpdate
  \/ Orthogonalise
  \/ HistWrite
  \/ BackProp
  \/ ITCF
  \/ Measure
  \/ UpdateShift
  \/ PrintStep
  \/ Equilibrate
  \/ PopControl
  \/ EndStep

Spec == Init /\ [][Next]_vars
SpecHist == InitHist /\ [][Next]_vars
SpecE2E == InitE2E /\ [][Next]_vars


\* ---- the set-up of a UHF trial wavefunction: UHF.__init__ and
\* UHF.find_uhf_wfn (src/pauxy/trial_wavefunction.py).  Energies are small
\* naturals, farther apart than deps: abs(enew - eold) < deps is enew = eold
\* and minima - enew > deps is minima > enew.
MaxInit == 2
MaxIter == 2
MaxEnergy == 1
Energies == 0..MaxEnergy
\* the loop variable `it` before its loop ran; a local not yet bound
NoIt == 0 - 1
NoAccept == [bound |-> FALSE, e |-> 0, attempt |-> 0]

IdleCfg == MkCfg("run", 0, 1, 1, 1, 0, 1, 1, 1, FALSE, FALSE, TRUE, "noop")
QmcIdle == QmcInit(IdleCfg, <<Walker0(UnitWeight, 0)>>)

RECURSIVE MinOf(_)
MinOf(q) ==
  IF Len(q) = 1 THEN q[1] ELSE Min(q[1], MinOf(Tail(q)))

\* self_consistant(enew, eold, niup, ...): the energy and the densities
SelfConsistent(enew, eold, dens) == enew = eold /\ dens

\* if attempt == 0 ... elif all(numpy.array(minima) - enew > deps)
AcceptsAny(attempt, minima, enew) == TRUE
Accepts(attempt, minima, enew) ==
  attempt = 0 \/ \A k \in DOMAIN minima : minima[k] > enew

UhfStart(ninit, nit, par) ==
  [pc |-> "start", parallel |-> par, ninit |-> ninit, nit_max |-> nit,
   U |-> "uold", attempt |-> 0, k |-> 0, it |-> NoIt, eold |-> 0,
   minima |-> <<>>, accept |-> NoAccept, conv |-> <<>>, error |-> FALSE,
   emin |-> 0, warned |-> 0, exc |-> "none"]

\* emin = 0; uold = system.U; system.U = ueff; minima = []
UhfBegin ==
  /\ uhf.pc = "start"
  /\ uhf' = [uhf EXCEPT !.U = "ueff", !.pc = "attempt"]
  /\ UNCHANGED <<qmcVars, rd, cli>>

\* for attempt in range(0, ninit): (self.trial, eold) = self.initialise(...)
UhfInitialise ==
  /\ uhf.pc = "attempt"
  /\ IF uhf.attempt < uhf.ninit
     THEN \E e \in Energies :
            uhf' = [uhf EXCEPT !.eold = e, !.k = 0, !.pc = "iter"]
     ELSE uhf' = [uhf EXCEPT !.pc = "after"]
  /\ UNCHANGED <<qmcVars, rd, cli>>

\* for it in range(0, nit_max): one SCF iteration
UhfIterate ==
  /\ uhf.pc = "iter"
  /\ IF uhf.k < uhf.nit_max
     THEN \E enew \in Energies : \E dens \in BOOLEAN :
            IF SelfConsistent(enew, uhf.eold, dens)
            THEN IF Accepts(uhf.attempt, uhf.minima, enew)
                 THEN uhf' = [uhf EXCEPT
                                !.it = uhf.k,
                                !.minima = Append(@, enew),
                                !.accept = [bound |-> TRUE, e |-> enew,
                                            attempt |-> uhf.attempt],
                                !.conv = Append(@, enew),
                                !.pc = "cycle"]
                 ELSE uhf' = [uhf EXCEPT !.it = uhf.k,
                                         !.conv = Append(@, enew),
                                         !.pc = "cycle"]
            ELSE uhf' = [uhf EXCEPT !.it = uhf.k, !.eold = enew,
                                    !.k = @ + 1]
     ELSE uhf' = [uhf EXCEPT !.pc = "cycle"]
  /\ UNCHANGED <<qmcVars, rd, cli>>

\* print("# SCF cycle: ... After {:4d} steps ...".format(attempt, it, eold))
UhfCycle ==
  /\ uhf.pc = "cycle"
  /\ IF uhf.it = NoIt
     THEN uhf' = [uhf EXCEPT !.exc = "UnboundLocalError", !.pc = "raised"]
     ELSE uhf' = [uhf EXCEPT !.attempt = @ + 1, !.pc = "attempt"]
  /\ UNCHANGED <<qmcVars, rd, cli>>

\* system.U = uold; print("# Minimum energy found: ...".format(min(minima)))
UhfRestore ==
  /\ uhf.pc = "after"
  /\ IF uhf.minima = <<>>
     THEN uhf' = [uhf EXCEPT !.U = "uold", !.exc = "ValueError",
                             !.pc = "raised"]
     ELSE uhf' = [uhf EXCEPT !.U = "uold", !.pc = "ret"]
  /\ UNCHANGED <<qmcVars, rd, cli>>

\* try: return (psi_accept, e_accept, min(minima), False, ...)
\* except UnboundLocalError: warnings.warn(...); return (trial, ..., True, None)
UhfReturn ==
  /\ uhf.pc = "ret"
  /\ IF uhf.accept.bound
     THEN uhf' = [uhf EXCEPT !.error = FALSE, !.emin = MinOf(uhf.minima),
                             !.pc = "init"]
     ELSE uhf' = [uhf EXCEPT !.warned = @ + 1, !.exc = "NameError",
                             !.pc = "raised"]
  /\ UNCHANGED <<qmcVars, rd, cli>>

\* UHF.__init__: if self.error and not parallel: warnings.warn(...); sys.exit()
UhfCheckError ==
  /\ uhf.pc = "init"
  /\ IF uhf.error /\ ~uhf.parallel
     THEN uhf' = [uhf EXCEPT !.warned = @ + 1, !.pc = "exited"]
     ELSE uhf' = [uhf EXCEPT !.pc = "built"]
  /\ UNCHANGED <<qmcVars, rd, cli>>

InitUHF ==
  /\ QmcIdle
  /\ rd = Idle /\ cli = Idle
  /\ \E ninit \in 0..MaxInit : \E nit \in 0..MaxIter : \E par \in BOOLEAN :
       uhf = UhfStart(ninit, nit, par)

NextUHF ==
  \/ UhfBegin
  \/ UhfInitialise
  \/ UhfIterate
  \/ UhfCycle
  \/ UhfRestore
  \/ UhfReturn
  \/ UhfCheckError

SpecUHF == InitUHF /\ [][NextUHF]_vars


\* ---- the read-in of a trial wavefunction: FreeElectron.__init__ and
\* read_fortran_complex_numbers (src/pauxy/trial_wavefunction.py).  The file
\* named by read_in is missing, a native numpy file, or a text file of lines;
\* a line is a pair "(re, im)", a literal that is no pair, or no literal.
MaxLines == 2
LineKinds == {"pair", "scalar", "junk"}
FileKinds == {"none", "missing", "npy", "text"}
RECURSIVE SeqsUpTo(_, _)
SeqsUpTo(S, n) ==
  IF n = 0 THEN {<<>>}
  ELSE SeqsUpTo(S, n - 1)
       \cup {Append(q, x) : q \in {r \in SeqsUpTo(S, n - 1) : Len(r) = n - 1},
                            x \in S}

\* what numpy.load and astype may do with the file: return, raise OSError
\* (no such file; not a native file, in the releases that report it so) or
\* raise another exception (ValueError: not a native file, in the releases
\* that refuse to unpickle; a native file astype cannot convert)
NativeOutcomes(kind) ==
  CASE kind = "missing" -> {"OSError"}
    [] kind = "npy" -> {"ok", "ValueError"}
    [] kind = "text" -> {"OSError", "ValueError"}
    [] kind = "none" -> {"ok"}

RdStart(kind, lines, need, cols) ==
  [pc |-> "start", kind |-> kind, lines |-> lines, need |-> need,
   cols |-> cols, i |-> 1, native |-> "untried", fallback |-> "untried",
   exc |-> "none", psi |-> "zeros"]

\* the exception classes that `except OSError` catches
CaughtByOSError == {"OSError"}
Catches(e) == e \in CaughtByOSError

\* if self.read_in is not None: try: numpy.load(...).astype(...)
\* except OSError: ...; else: the eigenvectors of the one-body Hamiltonian
RdNative ==
  /\ rd.pc = "start"
  /\ IF rd.kind = "none"
     THEN rd' = [rd EXCEPT !.psi = "eigenvectors", !.pc = "done"]
     ELSE \E o \in NativeOutcomes(rd.kind) :
            IF o = "ok"
            THEN rd' = [rd EXCEPT !.native = "ok", !.psi = "native",
                                  !.pc = "done"]
            ELSE IF Catches(o)
            THEN rd' = [rd EXCEPT !.native = "failed", !.pc = "open"]
            ELSE rd' = [rd EXCEPT !.native = "failed", !.exc = o,
                                  !.pc = "raised"]
  /\ UNCHANGED <<qmcVars, uhf, cli>>

\* read_fortran_complex_numbers: with open(filename) as f: f.readlines()
RdOpen ==
  /\ rd.pc = "open"
  /\ IF rd.kind = "missing"
     THEN rd' = [rd EXCEPT !.fallback = "failed", !.exc = "OSError",
                           !.pc = "raised"]
     ELSE rd' = [rd EXCEPT !.fallback = "tried", !.i = 1, !.pc = "parse"]
  /\ UNCHANGED <<qmcVars, uhf, cli>>

\* ast.literal_eval(u) and complex(t[0], t[1]) of one line
RdParseLine ==
  /\ rd.pc = "parse"
  /\ IF rd.i > Len(rd.lines)
     THEN rd' = [rd EXCEPT !.pc = "reshape"]
     ELSE IF rd.lines[rd.i] = "junk"
     THEN rd' = [rd EXCEPT !.fallback = "failed", !.exc = "SyntaxError",
                           !.pc = "raised"]
     ELSE IF rd.lines[rd.i] = "scalar"
     THEN rd' = [rd EXCEPT !.fallback = "failed", !.exc = "TypeError",
                           !.pc = "raised"]
     ELSE rd' = [rd EXCEPT !.i = @ + 1]
  /\ UNCHANGED <<qmcVars, uhf, cli>>

\* orbitals.reshape((2*nbasis, ne), order='F'); the split into up and down
\* columns; self.psi[:, :nup] = ...; self.psi[:, nup:] = ...
RdReshape ==
  /\ rd.pc = "reshape"
  /\ IF Len(rd.lines) # rd.need \/ ~rd.cols
     THEN rd' = [rd EXCEPT !.fallback = "failed", !.exc = "ValueError",
                           !.pc = "raised"]
     ELSE rd' = [rd EXCEPT !.fallback = "ok", !.psi = "fortran",
                           !.pc = "done"]
  /\ UNCHANGED <<qmcVars, uhf, cli>>

InitRead ==
  /\ QmcIdle
  /\ uhf = Idle /\ cli = Idle
  /\ \E kind \in FileKinds : \E lines \in SeqsUpTo(LineKinds, MaxLines) :
     \E need \in 1..MaxLines : \E cols \in BOOLEAN :
       /\ kind # "text" => (lines = <<>> /\ need = 1 /\ cols)
       /\ rd = RdStart(kind, lines, need, cols)

NextRead ==
  \/ RdNative
  \/ RdOpen
  \/ RdParseLine
  \/ RdReshape

SpecRead == InitRead /\ [][NextRead]_vars


\* ---- the post-processing tool: parse_args and main (src/tools/reblock.py).
\* A command line is a sequence of tokens: the options the parser declares,
\* -h (which argparse adds), an integer "7" and a name "a".
MaxArgs == 4
StoreTrue == {"-v", "-l", "-t", "-i", "-e", "-p"}
Options == StoreTrue \cup {"-s", "-f", "-h"}
Values == {"7", "a"}
Tokens == Options \cup Values
IsValue(t) == t \in Values
\* type=int of --start
IsInt(t) == t = "7"
NoStart == "None"
NoExit == 0 - 1

\* the defaults of the parser
Defaults ==
  [start_time |-> NoStart, verbose |-> FALSE, loops |-> FALSE,
   tail |-> FALSE, input |-> FALSE, estimates |-> FALSE, plot |-> FALSE,
   filenames |-> <<>>]

\* dest of a store_true option
SetFlag(o, t) ==
  CASE t = "-v" -> [o EXCEPT !.verbose = TRUE]
    [] t = "-l" -> [o EXCEPT !.loops = TRUE]
    [] t = "-t" -> [o EXCEPT !.tail = TRUE]
    [] t = "-i" -> [o EXCEPT !.input = TRUE]
    [] t = "-e" -> [o EXCEPT !.estimates = TRUE]
    [] t = "-p" -> [o EXCEPT !.plot = TRUE]

\* the number of values that follow position p (nargs='+' takes them all)
RECURSIVE ValuesFrom(_, _)
ValuesFrom(args, p) ==
  IF p <= Len(args) /\ IsValue(args[p]) THEN 1 + ValuesFrom(args, p + 1)
  ELSE 0

CliStart(args) ==
  [pc |-> "parse", args |-> args, pos |-> 1, opts |-> Defaults,
   extras |-> 0, printed |-> "none", exit |-> NoExit, mode |-> "none",
   plotted |-> FALSE, exc |-> "none"]

\* parser.error: the usage and the message, exit status 2
ArgError(c) == [c EXCEPT !.printed = "usage", !.exit = 2, !.pc = "exited"]

\* options = parser.parse_args(args): one option, or one stray argument
CliParseArg ==
  /\ cli.pc = "parse"
  /\ LET args == cli.args
         p == cli.pos
         n == ValuesFrom(args, p + 1)
     IN IF p > Len(args)
        THEN IF cli.extras > 0 THEN cli' = ArgError(cli)
             ELSE cli' = [cli EXCEPT !.pc = "check"]
        ELSE IF args[p] \in StoreTrue
        THEN cli' = [cli EXCEPT !.opts = SetFlag(@, args[p]), !.pos = p + 1]
        ELSE IF args[p] = "-h"
        THEN cli' = [cli EXCEPT !.printed = "help", !.exit = 0,
                                !.pc = "exited"]
        ELSE IF args[p] = "-s"
        THEN IF n >= 1 /\ IsInt(args[p + 1])
             THEN cli' = [cli EXCEPT !.opts.start_time = args[p + 1],
                                     !.pos = p + 2]
             ELSE cli' = ArgError(cli)
        ELSE IF args[p] = "-f"
        THEN IF n >= 1
             THEN cli' = [cli EXCEPT
                            !.opts.filenames = SubSeq(args, p + 1, p + n),
                            !.pos = p + n + 1]
             ELSE cli' = ArgError(cli)
        ELSE cli' = [cli EXCEPT !.extras = @ + 1, !.pos = p + 1]
  /\ UNCHANGED <<qmcVars, uhf, rd>>

\* if not options.filenames: parser.print_help(); sys.exit(1)
NoFilenamesNever(o) == FALSE
NoFilenames(o) == o.filenames = <<>>

CliCheckFiles ==
  /\ cli.pc = "check"
  /\ IF NoFilenames(cli.opts)
     THEN cli' = [cli EXCEPT !.printed = "help", !.exit = 1, !.pc = "exited"]
     ELSE cli' = [cli EXCEPT !.pc = "main"]
  /\ UNCHANGED <<qmcVars, uhf, rd>>

\* main: the analysis the options select
CliMain ==
  /\ cli.pc = "main"
  /\ IF cli.opts.estimates
     THEN cli' = [cli EXCEPT !.mode = "estimates",
                             !.pc = IF cli.opts.plot THEN "plot" ELSE "done"]
     ELSE IF cli.opts.loops
     THEN cli' = [cli EXCEPT !.mode = "loops", !.pc = "done"]
     ELSE IF cli.opts.input
     THEN cli' = [cli EXCEPT !.mode = "input", !.pc = "done"]
     ELSE cli' = [cli EXCEPT !.exc = "AttributeError", !.pc = "raised"]
  /\ UNCHANGED <<qmcVars, uhf, rd>>

\* if options.plot: ax[0].errorbar(data.nbp.values, ...)
CliPlot ==
  /\ cli.pc = "plot"
  /\ cli' = [cli EXCEPT !.exc = "NameError", !.pc = "raised"]
  /\ UNCHANGED <<qmcVars, uhf, rd>>

InitCLI ==
  /\ QmcIdle
  /\ uhf = Idle /\ rd = Idle
  /\ \E args \in SeqsUpTo(Tokens, MaxArgs) : cli = CliStart(args)

NextCLI ==
  \/ CliParseArg
  \/ CliCheckFiles
  \/ CliMain
  \/ CliPlot

SpecCLI == InitCLI /\ [][NextCLI]_vars


\* ---- positions
InLoop == pc \in {"prop", "rew", "upd", "stab"}
LoopDone == pc \in {"hist", "bp", "itcf", "meas", "updall", "orth", "shift",
                    "print", "equil", "pop", "end"}
Identity(n) == [k \in 1..n |-> k]

\* C1: in every state of the driver loop the population holds the configured
\* number of walkers, between and right after the population controls, for
\* every outcome of the resampling
C1_PopulationSize == Len(psi) = cfg.nwalkers
C1_Witness ==
  /\ ev.popc
  /\ ev.par # Identity(cfg.nwalkers)
  /\ Len(psi) = cfg.nwalkers

\* C2: whenever back propagation fires it consumes exactly the D slots
\* [s+1, s+D], with s >= 0 and s+D a slot of the buffer, and these hold the
\* snapshots of the D most recent steps, in step order
C2_BackPropSlots ==
  ev.bpfired =>
    /\ ev.s >= 0
    /\ ev.s + D <= B
    /\ ev.slots = [k \in 1..D |-> ev.s + k]
    /\ ev.stamps = [k \in 1..D |-> step - D + k]

\* C3: slot 0 is reset exactly once per block whichever estimators are
\* active: when a step that ends a block is over (or was aborted) the block
\* has seen one reset, and the two triggers never both reset in one step
C3_ResetOncePerBlock ==
  /\ ~(ev.bpreset /\ ev.itcfreset)
  /\ (pc \in {"end", "error"} /\ step >= 1 /\ step % B = 0
      /\ (cfg.back_propagation \/ cfg.itcf))
     => nreset = 1

C5_RunsAllSteps ==
  /\ pc = "done" => executed = Identity(cfg.nsteps)
  /\ pc # "error"

\* C6: a walker is propagated in a step iff |weight| > 1e-8 (and it is alive,
\* in the driver that has the flag) when its turn starts; at exactly 1e-8 it
\* is not propagated
C6_PropagateIffAboveThreshold ==
  \A i \in DOMAIN turn :
    turn[i].seen =>
      /\ turn[i].prop <=> (/\ Abs(turn[i].w0) > Eps
                           /\ (cfg.driver = "run" => turn[i].a0))
      /\ ~turn[i].prop => turn[i].wmid = turn[i].w0
C6_Witness ==
  \E i \in DOMAIN turn :
    /\ turn[i].seen /\ Abs(turn[i].w0) = Eps /\ ~turn[i].prop
    /\ \E k \in DOMAIN turn : turn[k].seen /\ turn[k].prop /\ step > 1

\* C7: in every step every walker, propagated or skipped, has its weight
\* multiplied exactly once by exp(dt * Re(E_T)) with the E_T of that step
C7_ReweightedOnce ==
  /\ \A i \in DOMAIN turn : turn[i].nrew <= 1
  /\ LoopDone =>
       \A i \in DOMAIN turn :
         /\ turn[i].nrew = 1
         /\ turn[i].fac = ExpFactor(ev.et0)
         /\ turn[i].w1 = turn[i].wmid * ExpFactor(ev.et0)
C7_Witness ==
  /\ LoopDone
  /\ step > 2
  /\ \E i \in DOMAIN turn :
       ~turn[i].prop /\ turn[i].nrew = 1 /\ turn[i].fac = 2 /\ turn[i].w1 # 0

\* C8: in the end-to-end scenario both walkers end with the weight
\* exp(0.01 * 10 * Re(E_T)): the constant factor applied 10 times to 1.0
C8_EndToEnd ==
  pc = "done" =>
    /\ Len(psi) = 2
    /\ \A i \in 1..2 :
         psi[i].weight = UnitWeight * Pow2(10 * LocalEnergy(psi[i]))

\* C9: with importance sampling (the constraint), non-negative initial
\* weights and a propagator that makes no weight negative, no weight is
\* ever negative
C9_NonNegativeWeights ==
  (cfg.importance_sampling /\ cfg.propagator # "free") =>
    \A i \in DOMAIN psi : psi[i].weight >= 0
C9_Witness ==
  /\ cfg.importance_sampling
  /\ step > cfg.npop_control
  /\ \E i \in DOMAIN turn :
       turn[i].nstab = 1 /\ turn[i].detR < 0 /\ psi[i].weight > 0

\* C10: the comb returns nw walkers, each a copy of an input walker with its
\* weight set to one uniform value, and the copies of walker i are as many as
\* the comb teeth in its interval of the cumulative |weight|
Copies(par, i) == Cardinality({k \in DOMAIN par : par[k] = i})
Teeth(p, nw, j, i) ==
  Cardinality({k \in 0..(nw - 1) : ToothIn(p, nw, j, k, i)})
CombShape ==
  /\ Len(psi) = cfg.nwalkers
  /\ \A k \in DOMAIN psi :
       /\ ev.par[k] \in DOMAIN ev.pre
       /\ psi[k] = [ev.pre[ev.par[k]] EXCEPT !.weight = psi[1].weight]
CombCounts ==
  \A i \in DOMAIN ev.pre :
    Copies(ev.par, i) = Teeth(ev.pre, cfg.nwalkers, ev.j, i)
C11_HistoryFollowsWalkers ==
  (cfg.back_propagation /\ ev.popc /\ pc = "end") =>
    /\ DOMAIN psi_hist = DOMAIN ev.prehist
    /\ \A i \in DOMAIN psi :
         /\ psi[i] = [ev.pre[ev.par[i]] EXCEPT !.weight = psi[i].weight]
         /\ \A k \in DOMAIN psi_hist :
              IF ev.prehist[k] = <<>> THEN psi_hist[k] = <<>>
              ELSE psi_hist[k][i] = ev.prehist[k][ev.par[i]]
C11_Witness ==
  /\ cfg.back_propagation /\ ev.popc /\ pc = "end"
  /\ ev.par # Identity(cfg.nwalkers)
  /\ \E k \in DOMAIN psi_hist :
       /\ k >= 1
       /\ ev.prehist[k] # <<>>
       /\ ev.prehist[k][1] # ev.prehist[k][2]
       /\ psi_hist[k][1] = psi_hist[k][2]

\* C13: a stabilisation returns detR with old determinant = detR * new
\* determinant, the new one orthonormal, and leaves weight * determinant
\* unchanged
\* as claimed: with and without importance sampling
C13_ProductInvariantBoth ==
  \A i \in DOMAIN turn :
    turn[i].nstab >= 1 =>
      /\ turn[i].sn1 = 1
      /\ turn[i].sn0 = turn[i].detR * turn[i].sn1
      /\ turn[i].sw0 * turn[i].sn0 = turn[i].sw1 * turn[i].sn1
\* as amended: without importance sampling the product is unchanged; with
\* importance sampling the weight is unchanged and detR is dropped
C13_ProductInvariantFree ==
  \A i \in DOMAIN turn :
    turn[i].nstab >= 1 =>
      /\ turn[i].sn1 = 1
      /\ turn[i].sn0 = turn[i].detR * turn[i].sn1
      /\ IF cfg.importance_sampling
         THEN /\ turn[i].sw1 = turn[i].sw0
              /\ turn[i].sw0 * turn[i].sn0
                   = turn[i].detR * turn[i].sw1 * turn[i].sn1
         ELSE turn[i].sw0 * turn[i].sn0 = turn[i].sw1 * turn[i].sn1
C13_Witness ==
  /\ ~cfg.importance_sampling
  /\ \E i \in DOMAIN turn :
       /\ turn[i].nstab = 1 /\ turn[i].detR < 0 /\ turn[i].sw0 # 0
       /\ turn[i].sw1 = turn[i].detR * turn[i].sw0
       /\ psi[i].norm = 1

\* C14: when the UHF search converges in no attempt, the failure is warned
\* about and returned as the error flag, no exception is raised, and the
\* construction exits the process iff the run is not parallel
UhfOver == uhf.pc \in {"built", "exited", "raised"}
C14_NoConvergenceIsFlagged ==
  (UhfOver /\ uhf.ninit >= 1 /\ uhf.nit_max >= 1 /\ uhf.conv = <<>>) =>
    /\ uhf.exc = "none"
    /\ uhf.warned >= 1
    /\ uhf.error
    /\ (uhf.pc = "exited") <=> ~uhf.parallel

\* C15: the read-in tries the native format first; any failure of that
\* attempt leads to the fallback; an error leaves the read-in only if both
\* attempts failed; a successful native read never triggers the fallback
RdOver == rd.pc \in {"done", "raised"}
C15_FallbackOnAnyFailure ==
  (RdOver /\ rd.kind # "none") =>
    /\ rd.native # "untried"
    /\ rd.native = "failed" => rd.fallback # "untried"
    /\ rd.exc # "none" => (rd.native = "failed" /\ rd.fallback = "failed")
    /\ rd.native = "ok" => rd.fallback = "untried"

\* C16: the tool prints the usage and exits with code 1, before any
\* analysis, when no filenames are given, and does not exit in the argument
\* parsing when at least one filename is given
FilenamesGiven(args) ==
  \E p \in 1..(Len(args) - 1) : args[p] = "-f" /\ IsValue(args[p + 1])
CliParsed == cli.pc \in {"exited", "main", "plot", "done", "raised"}
ExitsWithUsage ==
  /\ cli.pc = "exited" /\ cli.exit = 1 /\ cli.printed = "help"
  /\ cli.mode = "none"
\* as claimed: for every command line
C16_UsageIffNoFilenames ==
  CliParsed =>
    IF FilenamesGiven(cli.args) THEN cli.pc # "exited" ELSE ExitsWithUsage
\* the command lines argparse accepts: no -h, an integer after every -s, a
\* name after every -f, no argument that belongs to no option
WellFormed(args) ==
  \A p \in 1..Len(args) :
    /\ args[p] # "-h"
    /\ args[p] = "-s" => (p < Len(args) /\ IsInt(args[p + 1]))
    /\ args[p] = "-f" => (p < Len(args) /\ IsValue(args[p + 1]))
    /\ IsValue(args[p]) =>
         \/ p > 1 /\ args[p - 1] = "-s"
         \/ \E q \in 1..(p - 1) :
              args[q] = "-f" /\ \A r \in (q + 1)..p : IsValue(args[r])
\* as amended: for every command line argparse accepts
C16_UsageIffNoFOption ==
  (CliParsed /\ WellFormed(cli.args)) =>
    IF FilenamesGiven(cli.args) THEN cli.pc # "exited" ELSE ExitsWithUsage
C16_Witness ==
  /\ WellFormed(cli.args) /\ ~FilenamesGiven(cli.args)
  /\ cli.opts.estimates /\ cli.opts.start_time # NoStart
  /\ ExitsWithUsage

\* C17: the estimator accumulation of a step comes after the propagation
\* and the reweighting of that step
AccDone ==
  IF cfg.driver = "do_qmc" THEN LoopDone
  ELSE pc \in {"orth", "shift", "print", "equil", "pop", "end"}
\* as claimed: a barrier, no walker is propagated or reweighted after the
\* first accumulation of the step
C17_AccumulationBarrier ==
  /\ ~ev.late
  /\ ev.accum => \A i \in DOMAIN turn : turn[i].nrew = 1
\* as amended: each walker is accumulated once per step, after its own
\* propagation and reweighting and before the step's statistics are
\* finalised; in AFQMC.run the accumulation is a barrier
C17_AccumulationAfterReweight ==
  /\ \A i \in DOMAIN turn :
       /\ turn[i].nupd <= 1
       /\ turn[i].nupd = 1 =>
            (turn[i].accrew = 1 /\ turn[i].accw = turn[i].w1)
  /\ AccDone => \A i \in DOMAIN turn : turn[i].nupd = 1
  /\ cfg.driver = "run" => ~ev.late
C17_Witness ==
  /\ cfg.driver = "do_qmc" /\ LoopDone /\ ev.late
  /\ \A i \in DOMAIN turn : turn[i].nupd = 1
  /\ \E i \in DOMAIN turn :
       turn[i].prop /\ turn[i].accw # turn[i].w0 /\ turn[i].accw # 0

\* C18: at the steps with step mod nstblz = 0 every walker is
\* reorthogonalised exactly once, after its accumulation of that step, and
\* its weight is multiplied by detR iff importance sampling is off; at the
\* other steps no walker is reorthogonalised and no detR is applied
StabDone ==
  IF cfg.driver = "do_qmc" THEN LoopDone
  ELSE pc \in {"shift", "print", "equil", "pop", "end"}
C18_StabilisationCadence ==
  /\ \A i \in DOMAIN turn :
       /\ turn[i].nstab <= 1
       /\ turn[i].nstab = 1 =>
            /\ step % cfg.nstblz = 0
            /\ turn[i].updBefore = 1
            /\ turn[i].sn1 = 1
            /\ turn[i].sw1 = IF cfg.importance_sampling THEN turn[i].sw0
                             ELSE turn[i].detR * turn[i].sw0
       /\ (turn[i].nstab = 0 /\ turn[i].nrew = 1 /\ ~ev.popc) =>
            psi[i].weight = turn[i].w1
  /\ StabDone =>
       \A i \in DOMAIN turn :
         turn[i].nstab = IF step % cfg.nstblz = 0 THEN 1 ELSE 0
C18_Witness ==
  /\ StabDone /\ step % cfg.nstblz = 0 /\ step > cfg.nstblz
  /\ \A i \in DOMAIN turn : turn[i].nstab = 1
  /\ \E i \in DOMAIN turn :
       turn[i].detR # 1 /\ turn[i].sw0 # 0 /\ turn[i].sw1 # turn[i].sw0

\* C19: with back propagation enabled every step writes the population its
\* loop over the walkers left into slot (step-1) mod nprop_tot + 1, before
\* the back-propagation check, and the driver writes no other slot but
\* slot 0 in that step
StepSlot == ((step - 1) % cfg.nprop_tot) + 1
HistWritten ==
  pc \in {"bp", "itcf", "meas", "equil", "pop", "end", "error"}
SlotOfStepHoldsPopulation ==
  (cfg.back_propagation /\ HistWritten) =>
    /\ histStep[StepSlot] = step
    /\ ~ev.popc => psi_hist[StepSlot] = psi
OnlySlotOfStepAndSlot0 ==
  (cfg.back_propagation /\ pc # "pop") =>
    \A k \in DOMAIN psi_hist :
      (psi_hist'[k] # psi_hist[k] \/ histStep'[k] # histStep[k])
        => k \in {0, StepSlot}
C19_WriteSlotOfStep ==
  /\ []SlotOfStepHoldsPopulation
  /\ [][OnlySlotOfStepAndSlot0]_vars
C19_Witness ==
  /\ cfg.back_propagation /\ pc = "bp" /\ step > cfg.nprop_tot
  /\ cfg.nprop_tot > 1
  /\ histStep[StepSlot] = step /\ psi_hist[StepSlot] = psi
  /\ psi[1] # psi[2]

\* C20: the history buffer has nprop_tot slots per walker, and every slot
\* index the driver writes or reads in a run (the index written at each step
\* and both ends of the back-propagation range) lies within these slots
BlockSlots == 0..(cfg.nprop_tot - 1)
C20_IndicesWithinBlockSize ==
  cfg.back_propagation =>
    /\ HistWritten => BpStep + 1 \in BlockSlots
    /\ ev.bpfired => (ev.s \in BlockSlots /\ ev.e \in BlockSlots)

\* C21: E_T is held fixed between the energy-update points: it changes only
\* at steps with step mod nmeasure = 0, where it becomes the finalised mixed
\* estimate and a report is emitted, and the new value is first used for the
\* reweighting of the following step
FactorOfStepStart ==
  \A i \in DOMAIN turn : turn[i].nrew > 0 => turn[i].fac = ExpFactor(ev.et0)
ChangesAtMeasurement ==
  E_T' # E_T => (step % cfg.nmeasure = 0 /\ est' = EstEmpty)
C21_ETOnlyAtMeasurement ==
  /\ []FactorOfStepStart
  /\ [][ChangesAtMeasurement]_vars
\* C21 (amended): E_T changes only at the energy-update points, which are the
\* steps with step mod nmeasure = 0 in do_qmc (with the report) and the steps
\* with step mod nupdate_shift = 0 in AFQMC.run (whose report keeps the
\* cadence of nmeasure); the new value is first used in the following step
ChangesAtUpdatePoint ==
  E_T' # E_T =>
    IF cfg.driver = "do_qmc"
    THEN pc = "meas" /\ step % cfg.nmeasure = 0 /\ est' = EstEmpty
    ELSE pc = "shift" /\ step % cfg.nupdate_shift = 0
ReportAtMeasurement ==
  (est' = EstEmpty /\ est # EstEmpty) => step % cfg.nmeasure = 0
C21_ETOnlyAtUpdatePoints ==
  /\ []FactorOfStepStart
  /\ [][ChangesAtUpdatePoint /\ ReportAtMeasurement]_vars
C21_Witness ==
  /\ pc = "end" /\ E_T # ev.et0 /\ step > 1
  /\ \A i \in DOMAIN turn :
       turn[i].nrew = 1 /\ turn[i].fac = ExpFactor(ev.et0)
  /\ ExpFactor(E_T) # ExpFactor(ev.et0)

\* C22: at every step with step < nequilibrate E_T is set to the mixed
\* estimate computed in that step, whatever the measurement interval, and
\* from step >= nequilibrate on E_T changes only at the configured cadence
StepOver == pc \in {"pop", "end", "done"}
C22_ETTracksEstimate ==
  (StepOver /\ step >= 1 /\ step < cfg.nequilibrate /\ est.n > 0)
    => E_T \in Eproj(est)
\* C22 (amended): at every step with step < nequilibrate the local energy
\* bound (mean_local_energy) is set to the E_T of the end of that step, and at
\* no other step; E_T itself changes only at the energy-update points, during
\* the equilibration as after it
BoundFollowsET ==
  (StepOver /\ step >= 1 /\ step < cfg.nequilibrate) => mle = E_T
BoundOnlyInEquilibration ==
  mle' # mle => (pc = "equil" /\ step < cfg.nequilibrate /\ mle' = E_T)
C22_BoundTracksET ==
  /\ []BoundFollowsET
  /\ [][BoundOnlyInEquilibration /\ ChangesAtUpdatePoint]_vars
C22_Witness ==
  /\ pc = "end" /\ step < cfg.nequilibrate
  /\ mle = E_T /\ E_T # ev.et0

\* C23: the population control runs exactly at the steps with
\* step mod npop_control = 0, as the last action of the step (after the
\* history write, the back propagation, the ITCF, the measurement and the
\* equilibration of that step), and is over before a walker of the next step
\* is propagated
EarlierPhasesOver ==
  /\ \A i \in DOMAIN turn : turn[i].nrew = 1 /\ turn[i].nupd = 1
  /\ cfg.back_propagation => histStep[StepSlot] = step
  /\ (cfg.back_propagation /\ step % cfg.nback_prop = 0) => ev.bpfired
  /\ (cfg.itcf /\ step % cfg.nprop_tot = 0) => ev.itcffired
  /\ step % cfg.nmeasure = 0 => est = EstEmpty
  /\ step < cfg.nequilibrate => mle = E_T
PopControlLast ==
  /\ pc = "end" => (ev.popc <=> step % cfg.npop_control = 0)
  /\ ev.popc => pc \in {"end", "done"}
  /\ pc = "pop" => (step % cfg.npop_control = 0 /\ EarlierPhasesOver)
PopControlEndsStep ==
  pc = "pop" => (pc' = "end" /\ ev'.popc /\ step' = step)
C23_PopControlCadence ==
  /\ []PopControlLast
  /\ [][PopControlEndsStep]_vars
C23_Witness ==
  /\ pc = "end" /\ ev.popc /\ step = cfg.npop_control
  /\ ev.bpfired /\ ev.itcffired /\ step < cfg.nequilibrate
  /\ cfg.driver = "do_qmc"

\* C24: a walker whose |weight| was at or below the threshold at some step
\* is not propagated in any later step before a population control, and it
\* stays in the population and is fed to the estimators meanwhile
C24_InertUntilPopControl ==
  /\ Len(psi) = cfg.nwalkers
  /\ \A i \in DOMAIN turn :
       (turn[i].inert /\ turn[i].seen) => ~turn[i].prop
  /\ LoopDone => \A i \in DOMAIN turn : turn[i].inert => turn[i].nupd <= 1

\* C25: the slots of the history buffer do not alias the live walkers: once
\* a snapshot is written to a slot (slot 0 included), the propagation, the
\* reweighting and the stabilisation of the live walkers leave the slot as
\* it is, until the driver or the population control rewrites the slot
Rewrites == pc \in {"hist", "bp", "itcf", "pop"}
SlotsKeepSnapshots ==
  \A k \in DOMAIN psi_hist :
    (histStep[k] # Unwritten /\ ~Rewrites) => psi_hist'[k] = psi_hist[k]
C25_SlotsDoNotAlias == [][SlotsKeepSnapshots]_vars
C25_Witness ==
  /\ cfg.back_propagation /\ step > 1 /\ pc = "hist"
  /\ psi_hist[0] # psi /\ histStep[0] # Unwritten
  /\ \E k \in DOMAIN psi_hist :
       k > 0 /\ histStep[k] = step - 1 /\ psi_hist[k] # psi
  /\ \A i \in DOMAIN turn : turn[i].prop /\ turn[i].nrew = 1

\* C26: whenever the ITCF computation fires (ITCF enabled and
\* step mod nprop_tot = 0), whatever the back-propagation flag, the depth and
\* the block size, a history buffer exists and a back-propagated wavefunction
\* computed in the same step, ending at the current population, is at hand
C26_ITCFHasBufferAndPsiLeft ==
  pc = "itcf" =>
    /\ psi_hist # NoHist
    /\ psi_left.bound
    /\ psi_left.at = step
    /\ psi_left.e = BpEnd

\* C27: for every command line with at least one filename the tool runs
\* exactly one analysis, chosen with the precedence -e over -l over -i over
\* the default blocking analysis, and the analysis runs to completion using
\* only options and values that are defined (with -e and -p the plot is made)
ModeOf(o) ==
  IF o.estimates THEN "estimates"
  ELSE IF o.loops THEN "loops"
  ELSE IF o.input THEN "input"
  ELSE "blocking"
C27_OneModeRunsToCompletion ==
  (cli.pc \in {"done", "raised"} /\ cli.opts.filenames # <<>>) =>
    /\ cli.pc = "done" /\ cli.exc = "none"
    /\ cli.mode = ModeOf(cli.opts)
    /\ (cli.opts.estimates /\ cli.opts.plot) => cli.plotted

\* C28: find_uhf_wfn replaces system.U by ueff during the search and has
\* restored system.U to its original value when it returns or fails, on every
\* path, so that no caller sees system.U changed
UhfSearching == uhf.pc \in {"attempt", "iter", "cycle", "after"}
UhfLeft == uhf.pc \in {"ret", "init", "built", "exited", "raised"}
C28_URestoredOnEveryPath ==
  /\ UhfSearching => uhf.U = "ueff"
  /\ UhfLeft => uhf.U = "uold"

\* C29: over any sequence of SCF attempts of which at least one converges,
\* after every attempt the accepted wavefunction is the one recorded with the
\* smallest energy in minima, and find_uhf_wfn returns it together with
\* min(minima)
UhfReturned == uhf.pc \in {"init", "built", "exited"}
C29_AcceptedIsMinimum ==
  uhf.conv # <<>> =>
    /\ uhf.minima # <<>> /\ uhf.accept.bound
    /\ uhf.accept.e = MinOf(uhf.minima)
    /\ \E k \in DOMAIN uhf.conv : uhf.conv[k] = uhf.accept.e
    /\ uhf.pc # "raised"
    /\ UhfReturned => (uhf.emin = uhf.accept.e /\ ~uhf.error)
C29_Witness ==
  /\ uhf.pc = "built"
  /\ Len(uhf.conv) > Len(uhf.minima)
  /\ uhf.emin = uhf.accept.e /\ uhf.accept.attempt = 0

====
